---- MODULE Spec2Model ----
(***************************************************************************)
(* Model of the xkcd crawler: XKCDCrawler.download / process / save        *)
(* (src/xkcd.py), Page (src/page.py), the Downloader results               *)
(* (src/downloader.py) and the start-up of main.py.                        *)
(*                                                                         *)
(* One process (main.py) runs download(start, end, './output') with a pool *)
(* of worker threads; after the process has ended, main.py may be run      *)
(* again with the same arguments and finds the xkcd.json of the run        *)
(* before.                                                                 *)
(***************************************************************************)
EXTENDS Integers, Sequences, FiniteSets, TLC

\* ------------------------------------------------------------------ bounds
\* lowest start page the model tries
FirstPage == 402
\* the range [start, end] holds at most MaxPages pages
MaxPages == 2
\* thread counts 1..MaxThreads
MaxThreads == 2
\* a run has at most MaxWork threads and pages together
MaxWork == 4

\* ------------------------------------------------------- program constants
\* the page that is skipped (xkcd.py:124)
ErrorPage == 404
\* width of the zero-padded page number (xkcd.py:122, '{pageNum:04}')
PadWidth == 4

\* Python's None.  Every value that may be None is a record, so that it can
\* be compared with None.
None == [none |-> TRUE]

Threads == 1..MaxThreads

\* --------------------------------------------------------------- variables
VARIABLES
    run,          \* "none": main.py not started yet; "first": its first run;
                  \* "again": a later run over the xkcd.json of the run before
    start,        \* download's start argument
    end,          \* download's end argument
    threads,      \* download's threads argument
    mainPc,       \* position of the main thread
    pages,        \* self.pages: page number string -> Page or None
    queue,        \* download's queue (FIFO of page numbers)
    killEvent,    \* download's killEvent
    failedPages,  \* download's failedPages queue (page URLs)
    pbar,         \* the progress bar: [n |-> updates counted, closed |-> BOOLEAN]
    tasksDone,    \* number of queue.task_done() calls
    wpc,          \* position of each worker thread
    pageNum,      \* process' local pageNum of each worker
    page,         \* process' local page of each worker: None, or a reference
                  \* [key |-> k] to the Page object, which is the one stored
                  \* at pages[k]
    outFile,      \* ./output/xkcd.json
    \* history variables (not read by the program)
    loaded,       \* self.pages as constructed at the start of this run
    prevFile,     \* xkcd.json as it was at the start of this run
    cancelled,    \* TRUE when the run before this one was interrupted
    popped,       \* the page numbers taken from the queue in this run, in order
    fetched,      \* page numbers for which Page.fetch was called in this run
    downloads,    \* page numbers for which Downloader.downloadImage was called
    dlFailed,     \* page numbers whose Page.downloadImage returned an error
    failures,     \* TRUE once a fetch, an extraction or a download failed in this run
    logged,       \* the page URLs logged as failed by the finally block
    interrupts,   \* KeyboardInterrupts raised in the main thread in this run
    saves,        \* calls of save in this run
    saveOk,       \* the last save wrote the file
    latePops      \* per worker: queue.get() calls that returned while killEvent was set

vars == <<run, start, end, threads, mainPc, pages, queue, killEvent, failedPages,
          pbar, tasksDone, wpc, pageNum, page, outFile, loaded, prevFile, cancelled,
          popped, fetched, downloads, dlFailed, failures, logged, interrupts, saves,
          saveOk, latePops>>

\* ------------------------------------------------------------ pure helpers
\* the decimal digits of n, most significant first
RECURSIVE Digits(_)
Digits(n) == IF n < 10 THEN <<n>> ELSE Append(Digits(n \div 10), n % 10)

RECURSIVE ZeroPad(_, _)
ZeroPad(ds, width) == IF Len(ds) >= width THEN ds ELSE ZeroPad(<<0>> \o ds, width)

\* f'{pageNum:04}'
PageNumStr(n) == ZeroPad(Digits(n), PadWidth)

\* Page.getPageUrl
getPageUrl(n) == <<"https://xkcd.com/", Digits(n)>>

\* What the soup of a fetched page holds: the comic image (with its src and
\* title attributes) and the ctitle element.
Soups == {[comic |-> TRUE, ctitle |-> TRUE],
          [comic |-> FALSE, ctitle |-> TRUE],
          [comic |-> TRUE, ctitle |-> FALSE]}

\* Page.getImageUrl
getImageUrl(n, soup) ==
    IF soup.comic THEN [url |-> <<"http:", "//imgs.xkcd.com/comics", <<Digits(n), ".png">>>>] ELSE None

\* Page.getPageTitle
getPageTitle(n, soup) == IF soup.ctitle THEN [string |-> <<"ctitle", Digits(n)>>] ELSE None

\* Page.getImageComment
getImageComment(n, soup) == IF soup.comic THEN [string |-> <<"title", Digits(n)>>] ELSE None

\* Page.__init__
NewPage(n, pageUrl, imageUrl, title, comment, path, isDownloaded) ==
    [pageNum |-> n, pageUrl |-> pageUrl, imageUrl |-> imageUrl, title |-> title,
     comment |-> comment, path |-> path, isDownloaded |-> isDownloaded]

\* Page.fromSoup
fromSoup(n, soup) ==
    LET pageUrl == [url |-> getPageUrl(n)]
        imageUrl == getImageUrl(n, soup)
        title == getPageTitle(n, soup)
        comment == getImageComment(n, soup)
    IN  IF pageUrl = None \/ imageUrl = None \/ title = None \/ comment = None
        THEN None
        ELSE NewPage(n, pageUrl, imageUrl, title, comment, None, FALSE)

\* Page.fetch: getOk is whether Downloader.get returned no error, parseOk
\* whether BeautifulSoup built the soup
fetch(n, getOk, parseOk, soup) ==
    IF ~getOk THEN None
    ELSE IF ~parseOk THEN None
    ELSE fromSoup(n, soup)

\* Page.getImageFilename
getImageFilename(p) == <<PageNumStr(p.pageNum), "_", p.imageUrl.url[Len(p.imageUrl.url)]>>

\* the two assignments in the other order: the flag is set first
SetPath_FlagFirst(p, outputDir) == [p EXCEPT !.isDownloaded = TRUE]

\* Page.downloadImage on success: the two assignments, in order
SetPath(p, outputDir) == [p EXCEPT !.path = [abspath |-> <<outputDir, getImageFilename(p)>>]]
SetDownloaded(p) == [p EXCEPT !.isDownloaded = TRUE]

\* Page.toDict
PageToDict(p) ==
    [pageNum |-> p.pageNum, pageUrl |-> p.pageUrl, imageUrl |-> p.imageUrl,
     title |-> p.title, comment |-> p.comment, path |-> p.path,
     isDownloaded |-> p.isDownloaded]

\* a fromJson that does not read the path
PageFromJson_PathLost(jsonData) ==
    NewPage(jsonData.pageNum, jsonData.pageUrl, jsonData.imageUrl, jsonData.title,
            jsonData.comment, None, jsonData.isDownloaded)

\* Page.fromJson
PageFromJson(jsonData) ==
    NewPage(jsonData.pageNum, jsonData.pageUrl, jsonData.imageUrl, jsonData.title,
            jsonData.comment, jsonData.path, jsonData.isDownloaded)

\* XKCDCrawler.toDict: defined when no stored value is None (None has no
\* toDict, the call raises AttributeError)
CanToDict(ps) == \A k \in DOMAIN ps : ps[k] # None
toDict(ps) == [k \in DOMAIN ps |-> PageToDict(ps[k])]

\* XKCDCrawler.fromJson
fromJson(jsonData) == [k \in DOMAIN jsonData |-> PageFromJson(jsonData[k])]

\* the states of ./output/xkcd.json other than a written dictionary
\* ./output/xkcd.json: absent, empty (opened for writing and never
\* written), or holding a dumped dictionary
NoFile == [kind |-> "absent", data |-> <<>>]
EmptyFile == [kind |-> "empty", data |-> <<>>]
JsonFile(d) == [kind |-> "json", data |-> d]

\* self.pages[key] = value
Put(ps, key, value) == [k \in DOMAIN ps \cup {key} |-> IF k = key THEN value ELSE ps[k]]

EmptyPages == [k \in {} |-> None]

\* range(start, end): the last page is left out
Range_Exclusive(a, b) == [i \in 1..(b - a) |-> a + i - 1]

\* range(start, end + 1) as the queue's content
RECURSIVE Range(_, _)
Range(a, b) == IF a > b THEN <<>> ELSE <<a>> \o Range(a + 1, b)

\* ------------------------------------------------------------------- Init
\* main.py has not been started; ./output holds no xkcd.json
Init ==
    /\ run = "none"
    /\ start = 0
    /\ end = 0
    /\ threads = 0
    /\ mainPc = "start"
    /\ pages = EmptyPages
    /\ queue = <<>>
    /\ killEvent = FALSE
    /\ failedPages = <<>>
    /\ pbar = [n |-> 0, closed |-> FALSE]
    /\ tasksDone = 0
    /\ wpc = [w \in Threads |-> "none"]
    /\ pageNum = [w \in Threads |-> 0]
    /\ page = [w \in Threads |-> None]
    /\ outFile = NoFile
    /\ loaded = EmptyPages
    /\ prevFile = NoFile
    /\ cancelled = FALSE
    /\ popped = <<>>
    /\ fetched = {}
    /\ downloads = {}
    /\ dlFailed = {}
    /\ failures = FALSE
    /\ logged = <<>>
    /\ interrupts = 0
    /\ saves = 0
    /\ saveOk = FALSE
    /\ latePops = [w \in Threads |-> 0]

\* a thread that runs no more: it returned from process, it ended with an
\* exception, or it was never started
Terminated(w) == wpc[w] \in {"none", "exited", "dead"}
AllJoined == \A w \in Threads : Terminated(w)

\* download, lines 68-82: the events, the queue of range(start, end + 1), the
\* progress bar and the started threads
StartDownload(s, e, t, ps) ==
    /\ start' = s
    /\ end' = e
    /\ threads' = t
    /\ pages' = ps
    /\ loaded' = ps
    /\ killEvent' = FALSE
    /\ failedPages' = <<>>
    /\ queue' = Range(s, e)
    /\ pbar' = [n |-> 0, closed |-> FALSE]
    /\ tasksDone' = 0
    /\ wpc' = [w \in Threads |-> IF w <= t THEN "loop" ELSE "none"]
    /\ pageNum' = [w \in Threads |-> 0]
    /\ page' = [w \in Threads |-> None]
    /\ mainPc' = "poll"
    /\ popped' = <<>>
    /\ fetched' = {}
    /\ downloads' = {}
    /\ dlFailed' = {}
    /\ failures' = FALSE
    /\ logged' = <<>>
    /\ interrupts' = 0
    /\ saves' = 0
    /\ saveOk' = FALSE
    /\ latePops' = [w \in Threads |-> 0]

\* main.py, lines 24-39, the first time: no xkcd.json exists, the crawler
\* starts with no pages
Main ==
    /\ mainPc = "start"
    /\ \E s \in FirstPage..(FirstPage + 1), n \in 1..MaxPages, t \in 1..MaxThreads :
            /\ t + n <= MaxWork
            /\ StartDownload(s, s + n - 1, t, EmptyPages)
    /\ run' = "first"
    /\ prevFile' = outFile
    /\ cancelled' = FALSE
    /\ UNCHANGED outFile

\* the same with download called with threads = 1
MainSingle ==
    /\ mainPc = "start"
    /\ \E s \in FirstPage..(FirstPage + 1), n \in 1..MaxPages :
            /\ 1 + n <= MaxWork
            /\ StartDownload(s, s + n - 1, 1, EmptyPages)
    /\ run' = "first"
    /\ prevFile' = outFile
    /\ cancelled' = FALSE
    /\ UNCHANGED outFile

\* main.py run again with the same arguments after the process of the run
\* before has ended (the interpreter waits for its threads): xkcd.json
\* exists and is loaded with fromFile
MainAgain ==
    /\ mainPc = "done"
    /\ AllJoined
    /\ outFile.kind = "json"
    /\ StartDownload(start, end, threads, fromJson(outFile.data))
    /\ run' = "again"
    /\ prevFile' = outFile
    /\ cancelled' = (interrupts > 0)
    /\ UNCHANGED outFile

\* main.py run again when xkcd.json is empty (a failed save left it so):
\* json.load raises, download is never called
MainLoadError ==
    /\ mainPc = "done"
    /\ AllJoined
    /\ outFile.kind = "empty"
    /\ mainPc' = "loaderror"
    /\ run' = "again"
    /\ UNCHANGED <<start, end, threads, pages, queue, killEvent, failedPages, pbar,
                   tasksDone, wpc, pageNum, page, outFile, loaded, prevFile, cancelled,
                   popped, fetched, downloads, dlFailed, failures, logged, interrupts, saves,
                   saveOk, latePops>>

\* --------------------------------------------------------- worker threads
\* what a worker step leaves alone
WorkerFrame ==
    UNCHANGED <<run, start, end, threads, mainPc, killEvent, outFile, loaded, prevFile,
                cancelled, logged, interrupts, saves, saveOk>>

\* the skip test with the isDownloaded flag read the wrong way round
AlreadyDownloaded_Inverted(ps, key) == key \in DOMAIN ps /\ ~ps[key].isDownloaded

\* the skip test that skips every stored page
AlreadyDownloaded_AnyStored(ps, key) == key \in DOMAIN ps

\* line 127: pageNumStr in self.pages and self.pages[pageNumStr].isDownloaded.
\* A stored None has no isDownloaded; no worker meets one here, since None is
\* stored only for the page number the worker itself took from the queue
\* and a dictionary holding None is never saved.
AlreadyDownloaded(ps, key) == key \in DOMAIN ps /\ ps[key].isDownloaded

\* a loop that goes on to queue.get() whatever queue.empty() said
AfterEmptyTest_NoExit(q) == "kill"

\* where the loop goes after queue.empty(): out of the loop, or on to the
\* second operand
AfterEmptyTest(q) == IF q = <<>> THEN "exited" ELSE "kill"

\* line 120, first operand: not queue.empty()
TestEmpty(w) ==
    /\ wpc[w] = "loop"
    /\ wpc' = [wpc EXCEPT ![w] = AfterEmptyTest(queue)]
    /\ UNCHANGED <<pages, queue, failedPages, pbar, tasksDone, pageNum, page, popped,
                   fetched, downloads, dlFailed, failures, latePops>>
    /\ WorkerFrame

\* a loop condition that does not look at killEvent
AfterKillTest_Ignored(kill) == "get"

\* where the loop goes after not queue.empty() held: not killEvent.is_set()
AfterKillTest(kill) == IF kill THEN "exited" ELSE "get"

\* line 120, second operand
TestKill(w) ==
    /\ wpc[w] = "kill"
    /\ wpc' = [wpc EXCEPT ![w] = AfterKillTest(killEvent)]
    /\ UNCHANGED <<pages, queue, failedPages, pbar, tasksDone, pageNum, page, popped,
                   fetched, downloads, dlFailed, failures, latePops>>
    /\ WorkerFrame

\* line 121: queue.get() blocks while the queue is empty
Get(w) ==
    /\ wpc[w] = "get"
    /\ queue # <<>>
    /\ pageNum' = [pageNum EXCEPT ![w] = Head(queue)]
    /\ queue' = Tail(queue)
    /\ popped' = Append(popped, Head(queue))
    /\ latePops' = [latePops EXCEPT ![w] = IF killEvent THEN @ + 1 ELSE @]
    /\ wpc' = [wpc EXCEPT ![w] = "item"]
    /\ UNCHANGED <<pages, failedPages, pbar, tasksDone, page, fetched, downloads, dlFailed,
                   failures>>
    /\ WorkerFrame

\* a test that never matches (the number compared with the string '404')
IsErrorPage_Never(n) == FALSE

\* line 124: pageNum == 404
IsErrorPage(n) == n = ErrorPage

\* lines 124-128: the two skips
Skip(w) ==
    /\ wpc[w] = "item"
    /\ \/ IsErrorPage(pageNum[w])
       \/ /\ ~IsErrorPage(pageNum[w])
          /\ AlreadyDownloaded(pages, PageNumStr(pageNum[w]))
    /\ wpc' = [wpc EXCEPT ![w] = "update"]
    /\ UNCHANGED <<pages, queue, failedPages, pbar, tasksDone, pageNum, page, popped,
                   fetched, downloads, dlFailed, failures, latePops>>
    /\ WorkerFrame

\* a store that keeps the Page it already has at the key
Stored_KeepOld(ps, key, fetchedPage) ==
    IF key \in DOMAIN ps THEN ps ELSE Put(ps, key, fetchedPage)

\* what line 131 stores for the result of Page.fetch
Stored(ps, key, fetchedPage) == Put(ps, key, fetchedPage)

\* lines 130-131: page = Page.fetch(pageNum); self.pages[pageNumStr] = page
Fetch(w) ==
    /\ wpc[w] = "item"
    /\ ~IsErrorPage(pageNum[w])
    /\ ~AlreadyDownloaded(pages, PageNumStr(pageNum[w]))
    /\ \E getOk \in BOOLEAN, parseOk \in BOOLEAN, soup \in Soups :
         LET p == fetch(pageNum[w], getOk, parseOk, soup)
             key == PageNumStr(pageNum[w])
         IN  /\ pages' = Stored(pages, key, p)
             /\ page' = [page EXCEPT ![w] = IF p = None THEN None ELSE [key |-> key]]
             /\ failures' = (failures \/ p = None)
    /\ fetched' = fetched \cup {pageNum[w]}
    /\ wpc' = [wpc EXCEPT ![w] = "download"]
    /\ UNCHANGED <<queue, failedPages, pbar, tasksDone, pageNum, popped, downloads, dlFailed,
                   latePops>>
    /\ WorkerFrame

\* line 132 when page is None: None has no downloadImage, the thread ends
\* with AttributeError
DownloadRaises(w) ==
    /\ wpc[w] = "download"
    /\ page[w] = None
    /\ wpc' = [wpc EXCEPT ![w] = "dead"]
    /\ UNCHANGED <<pages, queue, failedPages, pbar, tasksDone, pageNum, page, popped,
                   fetched, downloads, dlFailed, failures, latePops>>
    /\ WorkerFrame

\* a process that does not report the failed download
AfterDownloadError_Dropped(q, url) == q

\* a failed download that is reported by downloadImage and by process
AfterDownloadError_Twice(q, url) == Append(Append(q, url), url)

\* lines 133-134: if err is not None: failedPages.put(Page.getPageUrl(pageNum))
AfterDownloadError(q, url) == Append(q, url)

\* lines 132-134 with Page.downloadImage lines 44-55: the image URL is
\* missing or Downloader.downloadImage returns an error; the page URL is
\* put on failedPages
DownloadFails(w) ==
    /\ wpc[w] = "download"
    /\ page[w] # None
    /\ failedPages' = AfterDownloadError(failedPages, getPageUrl(pageNum[w]))
    /\ dlFailed' = dlFailed \cup {pageNum[w]}
    /\ downloads' = IF pages[page[w].key].imageUrl = None THEN downloads
                    ELSE downloads \cup {pageNum[w]}
    /\ failures' = TRUE
    /\ wpc' = [wpc EXCEPT ![w] = "update"]
    /\ UNCHANGED <<pages, queue, pbar, tasksDone, pageNum, page, popped, fetched,
                   latePops>>
    /\ WorkerFrame

\* Page.downloadImage lines 52-58: Downloader.downloadImage returned None,
\* self.path is set
DownloadOk(w) ==
    /\ wpc[w] = "download"
    /\ page[w] # None
    /\ pages[page[w].key].imageUrl # None
    /\ pages' = [pages EXCEPT ![page[w].key] = SetPath(@, "./output")]
    /\ downloads' = downloads \cup {pageNum[w]}
    /\ wpc' = [wpc EXCEPT ![w] = "mark"]
    /\ UNCHANGED <<queue, failedPages, pbar, tasksDone, pageNum, page, popped, fetched, dlFailed,
                   failures, latePops>>
    /\ WorkerFrame

\* Page.downloadImage lines 59-60: self.isDownloaded = True
MarkDownloaded(w) ==
    /\ wpc[w] = "mark"
    /\ pages' = [pages EXCEPT ![page[w].key] = SetDownloaded(@)]
    /\ wpc' = [wpc EXCEPT ![w] = "update"]
    /\ UNCHANGED <<queue, failedPages, pbar, tasksDone, pageNum, page, popped, fetched,
                   downloads, dlFailed, failures, latePops>>
    /\ WorkerFrame

\* tqdm.update: a closed bar counts nothing
PbarUpdate(b) == IF b.closed THEN b ELSE [b EXCEPT !.n = @ + 1]

\* lines 136-137: pbar.update(); queue.task_done()
Update(w) ==
    /\ wpc[w] = "update"
    /\ pbar' = PbarUpdate(pbar)
    /\ tasksDone' = tasksDone + 1
    /\ wpc' = [wpc EXCEPT ![w] = "loop"]
    /\ UNCHANGED <<pages, queue, failedPages, pageNum, page, popped, fetched, downloads, dlFailed,
                   failures, latePops>>
    /\ WorkerFrame

Worker(w) ==
    \/ TestEmpty(w)
    \/ TestKill(w)
    \/ Get(w)
    \/ Skip(w)
    \/ Fetch(w)
    \/ DownloadRaises(w)
    \/ DownloadFails(w)
    \/ DownloadOk(w)
    \/ MarkDownloaded(w)
    \/ Update(w)

\* ------------------------------------------------------------ main thread
MainFrame ==
    UNCHANGED <<run, start, end, threads, pages, queue, tasksDone, wpc, pageNum, page,
                loaded, prevFile, cancelled, popped, fetched, downloads, dlFailed, failures,
                latePops>>

\* a main thread that does not wait for the queue
PollExit_NoWait(q) == TRUE

\* line 85: while not queue.empty() is left when the queue is empty
PollExit(q) == q = <<>>

\* lines 85-86: the polling loop ends when the queue is empty
PollDone ==
    /\ mainPc = "poll"
    /\ PollExit(queue)
    /\ mainPc' = "join"
    /\ UNCHANGED <<killEvent, failedPages, pbar, outFile, logged, interrupts, saves,
                   saveOk>>
    /\ MainFrame

\* lines 88-89: every t.join() has returned
Join ==
    /\ mainPc = "join"
    /\ AllJoined
    /\ mainPc' = "finally"
    /\ UNCHANGED <<killEvent, failedPages, pbar, outFile, logged, interrupts, saves,
                   saveOk>>
    /\ MainFrame

\* lines 91-94: KeyboardInterrupt raised in the try block (in sleep or in
\* join); killEvent.set(); pbar.close().  Ctrl-C is modelled where the main
\* thread waits: in the polling loop and in the joins.
Interrupt ==
    /\ mainPc \in {"poll", "join"}
    /\ killEvent' = TRUE
    /\ pbar' = [pbar EXCEPT !.closed = TRUE]
    /\ interrupts' = interrupts + 1
    /\ mainPc' = "except"
    /\ UNCHANGED <<failedPages, outFile, logged, saves, saveOk>>
    /\ MainFrame

\* lines 95-96: every t.join() of the except block has returned
ExceptJoin ==
    /\ mainPc = "except"
    /\ AllJoined
    /\ mainPc' = "finally"
    /\ UNCHANGED <<killEvent, failedPages, pbar, outFile, logged, interrupts, saves,
                   saveOk>>
    /\ MainFrame

\* lines 95-96: KeyboardInterrupt raised in a join of the except block; it
\* leaves the handler, and the finally block runs
InterruptAgain ==
    /\ mainPc = "except"
    /\ interrupts' = interrupts + 1
    /\ mainPc' = "finally"
    /\ UNCHANGED <<killEvent, failedPages, pbar, outFile, logged, saves, saveOk>>
    /\ MainFrame

\* save, lines 146-153: open(filepath, 'w') empties the file; toDict raises
\* for a stored None before anything is written
save(ps) == IF CanToDict(ps) THEN JsonFile(toDict(ps)) ELSE EmptyFile

\* lines 98-107: the finally block: close the bar, log and drain
\* failedPages, save
Finally ==
    /\ mainPc = "finally"
    /\ pbar' = [pbar EXCEPT !.closed = TRUE]
    /\ logged' = failedPages
    /\ failedPages' = <<>>
    /\ outFile' = save(pages)
    /\ saves' = saves + 1
    /\ saveOk' = CanToDict(pages)
    /\ mainPc' = "done"
    /\ UNCHANGED <<killEvent, interrupts>>
    /\ MainFrame

\* ------------------------------------------------------- specifications
Next ==
    \/ Main
    \/ MainAgain
    \/ MainLoadError
    \/ PollDone
    \/ Join
    \/ Interrupt
    \/ ExceptJoin
    \/ InterruptAgain
    \/ Finally
    \/ \E w \in Threads : Worker(w)

Spec == Init /\ [][Next]_vars

\* The threads are scheduled fairly and the main thread runs on; nothing
\* obliges the user to press Ctrl-C or to start main.py again.
FairSpec ==
    /\ Spec
    /\ WF_vars(PollDone \/ Join \/ ExceptJoin \/ Finally)
    /\ \A w \in Threads : WF_vars(Worker(w))

\* The program when download is only ever called with threads = 1, under the
\* same fairness.
SingleNext ==
    \/ MainSingle
    \/ MainAgain
    \/ MainLoadError
    \/ PollDone
    \/ Join
    \/ Interrupt
    \/ ExceptJoin
    \/ InterruptAgain
    \/ Finally
    \/ Worker(1)

SingleFairSpec ==
    /\ Init
    /\ [][SingleNext]_vars
    /\ WF_vars(PollDone \/ Join \/ ExceptJoin \/ Finally)
    /\ WF_vars(Worker(1))

\* ---------------------------------------------------------------- claims
RangeIds == start..end

\* the page number n is stored as a downloaded Page in ps
StoredDownloaded(ps, n) ==
    /\ PageNumStr(n) \in DOMAIN ps
    /\ ps[PageNumStr(n)] # None
    /\ ps[PageNumStr(n)].isDownloaded

\* the failure collector of this run: what is still on failedPages and what
\* the finally block has taken from it
Collector == logged \o failedPages

Entries(url) == Cardinality({i \in 1..Len(Collector) : Collector[i] = url})

Running == mainPc \in {"poll", "join", "except", "finally"}

\* C1: no worker is ever stuck in queue.get() on an empty queue: a worker
\* that finds the queue empty leaves its loop.
C1_NoWorkerBlocksOnGet == \A w \in Threads : ~(wpc[w] = "get" /\ queue = <<>>)

\* C2: every call of download eventually reaches the save step and has then
\* saved exactly once (under fair scheduling of the threads).
C2_DownloadReachesSave == Running ~> (mainPc = "done" /\ saves = 1)

\* C3: whenever save has been called, every worker thread of the run has
\* exited.
C3_SaveAfterWorkersExited == saves > 0 => AllJoined

\* C4: after a run that ends without an interrupt, the failed pages, the
\* pages stored as downloaded and the skipped page 404 are pairwise disjoint
\* and together are start..end, each failed page having one entry.
C4_EveryIdAccounted ==
    (run # "none" /\ mainPc = "done" /\ interrupts = 0) =>
        LET failed == {n \in RangeIds : Entries(getPageUrl(n)) > 0}
            done == {n \in RangeIds : StoredDownloaded(pages, n)}
            skipped == {ErrorPage} \cap RangeIds
        IN  /\ failed \cup done \cup skipped = RangeIds
            /\ failed \cap done = {}
            /\ failed \cap skipped = {}
            /\ done \cap skipped = {}
            /\ \A n \in failed : Entries(getPageUrl(n)) = 1

\* the worker w has left the fetch of page number n behind (it is past line 132)
FetchFailureHandled(w) ==
    /\ wpc[w] \in {"update", "loop", "kill", "get", "exited", "dead"}
    /\ pageNum[w] \in RangeIds
    /\ PageNumStr(pageNum[w]) \in DOMAIN pages
    /\ pages[PageNumStr(pageNum[w])] = None

\* C5: a failed fetch or extraction never ends the worker, and the worker
\* puts the page URL on the failure collector before it goes on.
C5_FetchFailureRecorded ==
    \A w \in Threads :
        /\ wpc[w] # "dead"
        /\ FetchFailureHandled(w) => Entries(getPageUrl(pageNum[w])) = 1

\* the value stored for key k, or a marker when the key is absent
At(ps, k) == IF k \in DOMAIN ps THEN ps[k] ELSE [absent |-> TRUE]

\* C6: a step in which a worker's Page.fetch returns None (the fetch or the
\* extraction failed) leaves self.pages as it was at that page's key.
C6_FetchFailureLeavesStore ==
    [][\A w \in Threads :
          (wpc[w] = "item" /\ wpc'[w] = "download" /\ page'[w] = None) =>
              At(pages', PageNumStr(pageNum[w])) = At(pages, PageNumStr(pageNum[w]))]_vars

\* C7: the save at the end of a run succeeds whatever failed during the run:
\* xkcd.json then holds the dumped dictionary of self.pages (stated for the
\* runs that are never interrupted, where no worker runs after the save).
C7_SaveSucceeds ==
    (saves > 0 /\ interrupts = 0) => (saveOk /\ outFile = JsonFile(toDict(pages)))

\* C8: in a run over the xkcd.json of the run before, a page that was loaded
\* as downloaded is neither fetched nor downloaded and stays as loaded; when
\* every page of the range was loaded as downloaded (or is page 404), the
\* file saved is the file loaded.
C8_Idempotent ==
    (run = "again" /\ mainPc # "loaderror") =>
        /\ \A n \in RangeIds :
              StoredDownloaded(loaded, n) =>
                  /\ n \notin fetched
                  /\ n \notin downloads
                  /\ At(pages, PageNumStr(n)) = loaded[PageNumStr(n)]
        /\ (saves = 1 /\ \A n \in RangeIds : n = ErrorPage \/ StoredDownloaded(loaded, n))
              => outFile = prevFile

\* a second run has ended in which downloaded pages were taken from the queue
\* and skipped, and the file is the one the run started from
C8_Witness ==
    /\ run = "again"
    /\ mainPc = "done"
    /\ saves = 1
    /\ end > start
    /\ popped = Range(start, end)
    /\ \A n \in RangeIds : n = ErrorPage \/ StoredDownloaded(loaded, n)
    /\ \E n \in RangeIds : StoredDownloaded(loaded, n)
    /\ fetched = {}
    /\ outFile = prevFile

\* C9: a run that follows a cancelled run, is itself not interrupted and
\* meets no failure ends with every page of the range but 404 stored as
\* downloaded, and the pages loaded as downloaded are neither fetched nor
\* downloaded again and stay as loaded.
C9_ResumeCompletes ==
    (run = "again" /\ cancelled /\ mainPc = "done" /\ interrupts = 0 /\ ~failures) =>
        \A n \in RangeIds \ {ErrorPage} :
            /\ StoredDownloaded(pages, n)
            /\ StoredDownloaded(loaded, n) =>
                  /\ n \notin fetched
                  /\ n \notin downloads
                  /\ pages[PageNumStr(n)] = loaded[PageNumStr(n)]

\* the run after a cancelled run has ended: it found one page downloaded and
\* left it alone, and it found another page stored as not downloaded or not
\* stored and downloaded it
C9_Witness ==
    /\ run = "again"
    /\ cancelled
    /\ mainPc = "done"
    /\ interrupts = 0
    /\ ~failures
    /\ \E n \in RangeIds : StoredDownloaded(loaded, n) /\ n \notin fetched
    /\ \E n \in RangeIds :
          /\ PageNumStr(n) \in DOMAIN loaded
          /\ ~StoredDownloaded(loaded, n)
          /\ n \in fetched
          /\ StoredDownloaded(pages, n)

\* C10 as claimed: no queue.get() returns a page number while killEvent is
\* set.
C10_NoPopAfterKill == \A w \in Threads : latePops[w] = 0

\* C10 as amended: a worker takes at most one page number from the queue
\* while killEvent is set (the one whose loop test it had passed before).
C10_AtMostOneLatePop == \A w \in Threads : latePops[w] <= 1

\* a worker has taken a page number from the queue after killEvent was set
C10_Witness == \E w \in Threads : latePops[w] = 1 /\ killEvent /\ wpc[w] = "item"

\* C11: when the extraction of a page succeeded and its download failed, the
\* store holds the Page with isDownloaded false and no path, the failure
\* collector holds its URL once, and the worker that had it has not ended
\* with an exception.
C11_DownloadFailureKept ==
    \A n \in dlFailed :
        /\ PageNumStr(n) \in DOMAIN pages
        /\ pages[PageNumStr(n)] # None
        /\ ~pages[PageNumStr(n)].isDownloaded
        /\ pages[PageNumStr(n)].path = None
        /\ Entries(getPageUrl(n)) = 1
        /\ \A w \in Threads : pageNum[w] = n => wpc[w] # "dead"

\* an uninterrupted run has ended and saved in which the download of one
\* page failed and a later page was downloaded
C11_Witness ==
    /\ mainPc = "done"
    /\ interrupts = 0
    /\ saveOk
    /\ \E n \in dlFailed : \E m \in RangeIds : m > n /\ StoredDownloaded(pages, m)

\* C12: every stored Page with isDownloaded true has a path and an image
\* URL, in every state, the states between the two assignments of
\* downloadImage included.
C12_DownloadedHasPath ==
    \A k \in DOMAIN pages :
        (pages[k] # None /\ pages[k].isDownloaded) =>
            (pages[k].path # None /\ pages[k].imageUrl # None)

\* a worker stands between the two assignments of downloadImage (path set,
\* flag not yet) while another page is stored as downloaded
C12_Witness ==
    /\ \E w \in Threads :
          /\ wpc[w] = "mark"
          /\ pages[page[w].key].path # None
          /\ ~pages[page[w].key].isDownloaded
    /\ \E n \in RangeIds : StoredDownloaded(pages, n)

\* C13: page 404 is never fetched nor downloaded, self.pages is never
\* written at '0404', its URL is never on the failure collector, and the
\* worker that took it goes on to pbar.update and task_done.
C13_ErrorPageSkipped ==
    /\ ErrorPage \notin fetched
    /\ ErrorPage \notin downloads
    /\ PageNumStr(ErrorPage) \notin DOMAIN pages
    /\ Entries(getPageUrl(ErrorPage)) = 0
    /\ \A w \in Threads :
          pageNum[w] = ErrorPage => wpc[w] \notin {"download", "mark", "dead"}

\* a worker has taken 404 from the queue, counted it as done and is back at
\* its loop test
C13_Witness ==
    \E w \in Threads :
        /\ pageNum[w] = ErrorPage
        /\ wpc[w] = "loop"
        /\ tasksDone >= 1
        /\ ErrorPage \in RangeIds

\* ------------------------------------------- toDict / fromJson round trip
\* A Page for page number n as Page.__init__ can build it: with or without
\* an image URL, with or without a path, downloaded or not.
RTItem(n, v) ==
    NewPage(n, [url |-> getPageUrl(n)],
            IF v.img THEN getImageUrl(n, [comic |-> TRUE, ctitle |-> TRUE]) ELSE None,
            getPageTitle(n, [comic |-> TRUE, ctitle |-> TRUE]),
            getImageComment(n, [comic |-> TRUE, ctitle |-> TRUE]),
            IF v.path THEN [abspath |-> <<"./output", PageNumStr(n)>>] ELSE None,
            v.dl)

RTVariants == [img : BOOLEAN, path : BOOLEAN, dl : BOOLEAN]

\* the stores XKCDCrawler(pages) is given: the non-empty dictionaries of
\* such Pages over the page numbers FirstPage .. FirstPage + MaxPages - 1
RTStores ==
    UNION {{[k \in {PageNumStr(n) : n \in S} |->
                RTItem(CHOOSE n \in S : PageNumStr(n) = k,
                       g[CHOOSE n \in S : PageNumStr(n) = k])] :
            g \in [S -> RTVariants]} :
           S \in (SUBSET (FirstPage..(FirstPage + MaxPages - 1))) \ {{}}}

RTInit ==
    /\ run = "none"
    /\ start = 0
    /\ end = 0
    /\ threads = 0
    /\ mainPc = "crawler"
    /\ pages \in RTStores
    /\ loaded = pages
    /\ queue = <<>>
    /\ killEvent = FALSE
    /\ failedPages = <<>>
    /\ pbar = [n |-> 0, closed |-> FALSE]
    /\ tasksDone = 0
    /\ wpc = [w \in Threads |-> "none"]
    /\ pageNum = [w \in Threads |-> 0]
    /\ page = [w \in Threads |-> None]
    /\ outFile = NoFile
    /\ prevFile = NoFile
    /\ cancelled = FALSE
    /\ popped = <<>>
    /\ fetched = {}
    /\ downloads = {}
    /\ dlFailed = {}
    /\ failures = FALSE
    /\ logged = <<>>
    /\ interrupts = 0
    /\ saves = 0
    /\ saveOk = FALSE
    /\ latePops = [w \in Threads |-> 0]

RTFrame ==
    UNCHANGED <<run, start, end, threads, loaded, queue, killEvent, failedPages, pbar,
                tasksDone, wpc, pageNum, page, prevFile, cancelled, popped, fetched,
                downloads, dlFailed, failures, logged, interrupts, saves, saveOk,
                latePops>>

\* XKCDCrawler.toDict of the crawler's pages; the dictionary is kept in outFile
RTToDict ==
    /\ mainPc = "crawler"
    /\ outFile' = JsonFile(toDict(pages))
    /\ mainPc' = "dict"
    /\ UNCHANGED pages
    /\ RTFrame

\* XKCDCrawler.fromJson of that dictionary: a new crawler
RTFromJson ==
    /\ mainPc = "dict"
    /\ pages' = fromJson(outFile.data)
    /\ mainPc' = "rebuilt"
    /\ UNCHANGED outFile
    /\ RTFrame

RTNext == RTToDict \/ RTFromJson

RoundTripSpec == RTInit /\ [][RTNext]_vars

\* C14: the crawler built by fromJson from the toDict of a non-empty store of
\* Pages has the same keys and, at each key, a Page equal in every attribute.
C14_RoundTrip ==
    mainPc = "rebuilt" =>
        /\ DOMAIN pages = DOMAIN loaded
        /\ \A k \in DOMAIN loaded :
              /\ pages[k].pageNum = loaded[k].pageNum
              /\ pages[k].pageUrl = loaded[k].pageUrl
              /\ pages[k].imageUrl = loaded[k].imageUrl
              /\ pages[k].title = loaded[k].title
              /\ pages[k].comment = loaded[k].comment
              /\ pages[k].path = loaded[k].path
              /\ pages[k].isDownloaded = loaded[k].isDownloaded

\* a store of two Pages, one downloaded with its path and one without path,
\* has been rebuilt
C14_Witness ==
    /\ mainPc = "rebuilt"
    /\ \E k1, k2 \in DOMAIN loaded :
          /\ k1 # k2
          /\ loaded[k1].isDownloaded /\ loaded[k1].path # None
          /\ loaded[k2].path = None
          /\ pages[k1].path # None

\* C15: the queue is filled with start, start + 1, ..., end, each once and in
\* this order (end - start + 1 numbers before any worker has popped); what has
\* been popped followed by what is still queued is always this sequence, so no
\* number is popped twice, every number a worker holds was popped, and two
\* workers never hold the same number, hence never write pages at the same key.
C15_EachIdOnce ==
    run # "none" =>
        /\ Len(popped \o queue) = end - start + 1
        /\ \A i \in 1..Len(popped \o queue) : (popped \o queue)[i] = start + i - 1
        /\ \A i, j \in 1..Len(popped) : i # j => popped[i] # popped[j]
        /\ \A w \in Threads :
              pageNum[w] # 0 => \E i \in 1..Len(popped) : popped[i] = pageNum[w]
        /\ \A w1, w2 \in Threads :
              (w1 # w2 /\ pageNum[w1] # 0) => pageNum[w1] # pageNum[w2]

\* two workers are each between their pop and their progress update, with
\* different page numbers, and the queue of two numbers is used up
C15_Witness ==
    /\ end = start + 1
    /\ queue = <<>>
    /\ popped = <<start, end>>
    /\ \E w1, w2 \in Threads :
          /\ w1 # w2
          /\ wpc[w1] \in {"item", "download", "mark"}
          /\ wpc[w2] \in {"item", "download", "mark"}
          /\ pageNum[w1] # pageNum[w2]

\* C16: when no KeyboardInterrupt was raised, the finally block and its save
\* are reached only with the queue empty and with every number of
\* start..end popped, each once and in order.
C16_SaveAfterQueueDrained ==
    (run # "none" /\ interrupts = 0 /\ mainPc \in {"finally", "done"}) =>
        /\ queue = <<>>
        /\ Len(popped) = end - start + 1
        /\ \A n \in start..end :
              Cardinality({i \in 1..Len(popped) : popped[i] = n}) = 1

\* an uninterrupted run over two pages is about to save
C16_Witness ==
    /\ mainPc = "finally"
    /\ \A w \in 1..threads : wpc[w] = "exited"
    /\ interrupts = 0
    /\ saves = 0
    /\ end = start + 1
    /\ Len(popped) = 2

\* C17: every popped page number is followed by one pbar.update() and one
\* queue.task_done(), so that once no worker runs any more the progress bar
\* and the count of finished tasks both equal the number of pops (here for
\* runs without KeyboardInterrupt, where the bar is never closed).
C17_ProgressCountsEveryPop ==
    (run # "none" /\ interrupts = 0 /\ AllJoined) =>
        /\ pbar.n = Len(popped)
        /\ tasksDone = Len(popped)

\* C18: in a run over the xkcd.json of the run before, a worker skips a page
\* number only when it is 404 or its key is stored with isDownloaded true. A
\* number loaded with isDownloaded false is not skipped: Page.fetch is called
\* for it, what Page.fetch returned is stored at its key in place of the
\* loaded Page (a Page just extracted, with no path and not downloaded; or
\* None, when the fetch failed), and no download of it was or is attempted
\* up to that step; the worker goes on to the download.
C18_NotDownloadedIsRefetched ==
    [][\A w \in Threads :
          (run = "again" /\ wpc[w] = "item" /\ wpc'[w] # "item") =>
              LET n == pageNum[w]
                  k == PageNumStr(n)
              IN  /\ wpc'[w] = "update" =>
                        (n = ErrorPage \/ (k \in DOMAIN pages /\ pages[k].isDownloaded))
                  /\ (n # ErrorPage /\ k \in DOMAIN pages /\ ~pages[k].isDownloaded) =>
                        /\ wpc'[w] = "download"
                        /\ n \in fetched'
                        /\ n \notin downloads'
                        /\ \E getOk \in BOOLEAN, parseOk \in BOOLEAN, soup \in Soups :
                              pages'[k] = fetch(n, getOk, parseOk, soup)
                        /\ pages'[k] # None =>
                              (pages'[k].path = None /\ ~pages'[k].isDownloaded)
                        /\ (page'[w] = None) <=> (pages'[k] = None)]_vars

\* a page loaded as not downloaded, and with the path an interrupted run left
\* on it, has been fetched again and stored anew, and its download is next
C18_Witness ==
    /\ run = "again"
    /\ \E w \in Threads :
          LET k == PageNumStr(pageNum[w])
          IN  /\ wpc[w] = "download"
              /\ k \in DOMAIN loaded
              /\ ~loaded[k].isDownloaded
              /\ loaded[k].path # None
              /\ pages[k] # None
              /\ pages[k].path = None
              /\ pageNum[w] \in fetched

\* C19: with threads = 1 the worker is never at queue.get() with the queue
\* empty, and a run in which no fetch, extraction or download fails always
\* ends with xkcd.json saved, and with the queue empty unless Ctrl-C cut the
\* run short.
C19_SingleWorkerTerminates ==
    /\ [](threads = 1 => \A w \in Threads : ~(wpc[w] = "get" /\ queue = <<>>))
    /\ (threads = 1 /\ Running) ~>
          (\/ failures
           \/ /\ mainPc = "done"
              /\ saves = 1
              /\ saveOk
              /\ outFile = JsonFile(toDict(pages))
              /\ interrupts = 0 => queue = <<>>)

\* a run of one worker over two pages has ended without failure or Ctrl-C
C19_Witness ==
    /\ threads = 1
    /\ mainPc = "done"
    /\ ~failures
    /\ interrupts = 0
    /\ popped = <<start, start + 1>>
    /\ queue = <<>>
    /\ saveOk
    /\ wpc[1] = "exited"

\* C20: every URL on failedPages or already logged from it is the page URL of
\* a number of start..end that was popped in this run and whose key is stored
\* with a Page that is not downloaded; no URL is there twice; and a number
\* stored as downloaded has no URL there.
C20_CollectorEntries ==
    run # "none" =>
        /\ \A i \in 1..Len(Collector) :
              \E n \in RangeIds :
                  /\ Collector[i] = getPageUrl(n)
                  /\ \E j \in 1..Len(popped) : popped[j] = n
                  /\ PageNumStr(n) \in DOMAIN pages
                  /\ pages[PageNumStr(n)] # None
                  /\ ~pages[PageNumStr(n)].isDownloaded
                  /\ Entries(Collector[i]) = 1
        /\ \A n \in RangeIds :
              StoredDownloaded(pages, n) => Entries(getPageUrl(n)) = 0

\* an uninterrupted run over two pages has ended: the download of one failed
\* and its URL was logged, the other is stored as downloaded
C20_Witness ==
    /\ mainPc = "done"
    /\ interrupts = 0
    /\ end = start + 1
    /\ Len(logged) = 1
    /\ \E n \in RangeIds : logged[1] = getPageUrl(n) /\ ~StoredDownloaded(pages, n)
    /\ \E n \in RangeIds : StoredDownloaded(pages, n)

====
